---------------------------- MODULE Spec2Model ----------------------------
(***************************************************************************)
(* A model of multiply_post_processing/post_processing.py: the registry of *)
(* post processor creators, the derivation of the reprojection from the    *)
(* roi and the grid hints, and the run of the resolved post processors     *)
(* over observation windows (EO data path) or date groups (variable path). *)
(*                                                                         *)
(* Conventions.  A grid hint string is a record [form, code, text]:        *)
(* 'EPSG:4326' is [form |-> "EPSG", code |-> 4326, text |-> ""], any other *)
(* string is WKT text, and the hint None is NoGrid.  An optional list is   *)
(* NoList (None) or SomeList(list).  Angles are                            *)
(* in tenths of a degree.  A time is a number of slots since the epoch,    *)
(* SlotsPerDay slots to the calendar day.  Python lists are sequences      *)
(* (1-based here, 0-based in the source); a dict is the sequence of its    *)
(* keys in insertion order with a function for the values.                 *)
(***************************************************************************)
EXTENDS Integers, Sequences, FiniteSets, TLC

VARIABLES
    registry,          \* POST_PROCESSOR_CREATOR_REGISTRY
    call,              \* the entry point called: "none", "get_post_processors",
                       \* "_get_reprojection", "run_post_processing", "run_post_processor"
    name,              \* run_post_processor's name argument
    indicator_names,   \* the requested indicator names
    variable_names,    \* NoList or SomeList(the variable names)
    roi_grid,          \* NoGrid or a grid hint
    destination_grid,  \* NoGrid or a grid hint
    output_format,     \* 'GeoTiff' or another string
    roi_center,        \* the centroid of the roi: [lon, lat], tenths of a degree
    eo_data,           \* creator name -> the dates of the observations its data types yield
    var_files,         \* what get_valid_files(data_path, variable_names) lists
    pc,                \* the position of the caller
    post_processors,   \* the list get_post_processors built / the one of run_post_processor
    p,                 \* the index of the post processor being run
    i,                 \* the loop index of the window / date group (0-based, as in the source)
    reprojection,      \* the result of the last _get_reprojection
    file_ref_groups,   \* the dict of _group_file_refs_by_date: a sequence of [date, refs]
    indicator_dict,    \* the keys of the dict the post processor returned last
    events,            \* everything observable that happened, in order
    written,           \* the file names GeoTiffWriter wrote, in order
    error              \* "none" or the exception that ended the run

inputs == <<name, indicator_names, variable_names, roi_grid, destination_grid,
            output_format, roi_center, eo_data, var_files>>
locals == <<post_processors, p, i, reprojection, file_ref_groups, indicator_dict>>
vars == <<registry, call, inputs, pc, locals, events, written, error>>

(***************************************************************************)
(* Bounds of the model.                                                    *)
(***************************************************************************)
MaxCreators == 2      \* creators registered (registry specification)
MaxDeclared == 2      \* indicator descriptions a creator declares
MaxRequested == 2     \* length of the list of requested indicator names
MaxRunCreators == 2   \* creators registered when a run starts
MaxDates == 3         \* observations of one EO data post processor
MaxFiles == 3         \* file references in the data path
SlotsPerDay == 2      \* times that fall on one calendar day

None == "None"
NoList == [none |-> TRUE, list |-> <<>>]
SomeList(list) == [none |-> FALSE, list |-> list]
EO_DATA_POST_PROCESSOR == "EO_DATA_POST_PROCESSOR"
VARIABLE_POST_PROCESSOR == "VARIABLE_POST_PROCESSOR"
GeoTiff == "GeoTiff"

IndicatorNames == {"NBR", "SMA"}
VariableNames == {"lai", "cab"}
Times == {0, 1, 2, 3}
StartTimes == {0, 1, 2}

\* all sequences over S of length lo .. hi
SeqsOf(S, lo, hi) == UNION {[1 .. n -> S] : n \in lo .. hi}

\* x in list (Python's in)
InList(x, list) == \E k \in 1 .. Len(list) : list[k] = x

Range(list) == {list[k] : k \in 1 .. Len(list)}

(***************************************************************************)
(* The plugin registry.                                                    *)
(***************************************************************************)
add_post_processor_creator(reg, creator) == Append(reg, creator)

\* The inner loop of get_post_processors over one creator's indicator
\* descriptions: the short names that are requested, in declared order.
RECURSIVE requested_of(_, _, _)
requested_of(descriptions, requested, acc) ==
    IF descriptions = <<>> THEN acc
    ELSE requested_of(Tail(descriptions), requested,
                      IF InList(Head(descriptions), requested)
                      THEN Append(acc, Head(descriptions))
                      ELSE acc)

\* create_post_processor(indicator_names) of creator number k of the registry
create_post_processor(creator, k, names) ==
    [creator |-> k, name |-> creator.name, type |-> creator.type,
     indicator_names |-> names]

\* a slip: a post processor only for a creator with two requested indicators
selects_two(names) == Len(names) > 1

\* a creator's post processor is created when it has a requested indicator
selects(names) == Len(names) > 0

RECURSIVE get_post_processors_from(_, _, _, _)
get_post_processors_from(reg, k, requested, acc) ==
    IF k > Len(reg) THEN acc
    ELSE LET found == requested_of(reg[k].indicators, requested, <<>>)
         IN get_post_processors_from(reg, k + 1, requested,
                IF selects(found)
                THEN Append(acc, create_post_processor(reg[k], k, found))
                ELSE acc)

get_post_processors(reg, requested) == get_post_processors_from(reg, 1, requested, <<>>)

\* no post processor: the ValueError of get_post_processor was raised instead
NoPostProcessor == [creator |-> 0, name |-> None, type |-> None, indicator_names |-> <<>>]

\* get_post_processor: the first creator of that name, or the ValueError
RECURSIVE get_post_processor_from(_, _, _, _)
get_post_processor_from(reg, k, n, names) ==
    IF k > Len(reg) THEN NoPostProcessor
    ELSE IF n = reg[k].name THEN create_post_processor(reg[k], k, names)
    ELSE get_post_processor_from(reg, k + 1, n, names)

get_post_processor(reg, n, names) == get_post_processor_from(reg, 1, n, names)


(***************************************************************************)
(* Spatial reference systems.  A reference system is [proj, zone, north];  *)
(* osr's ImportFromEPSG, ImportFromWkt, SetUTM and IsSame are modelled on  *)
(* the systems the model's hints can name.                                 *)
(***************************************************************************)
NoGrid == [form |-> "None", code |-> 0, text |-> ""]
Epsg(code) == [form |-> "EPSG", code |-> code, text |-> ""]
Wkt(text) == [form |-> "WKT", code |-> 0, text |-> text]

Srs(proj, zone, north) == [proj |-> proj, zone |-> zone, north |-> north]
NoSrs == Srs("None", 0, FALSE)
WGS84 == Srs("longlat", 0, FALSE)

ImportFromEPSG(code) ==
    IF code = 4326 THEN WGS84
    ELSE IF code \in 32601 .. 32660 THEN Srs("utm", code - 32600, TRUE)
    ELSE IF code \in 32701 .. 32760 THEN Srs("utm", code - 32700, FALSE)
    ELSE Srs("other", code, FALSE)

ImportFromWkt(text) ==
    IF text = "GEOGCS[WGS 84]" THEN WGS84
    ELSE IF text = "PROJCS[WGS 84 / UTM zone 32N]" THEN Srs("utm", 32, TRUE)
    ELSE Srs("other", 0, FALSE)

IsSame(a, b) == a = b

\* Python's int(): truncation towards zero of num / den, den > 0
TruncDiv(num, den) == IF num >= 0 THEN num \div den ELSE -((-num) \div den)

_get_reference_system(wkt) ==
    IF wkt = NoGrid THEN NoSrs
    ELSE IF wkt.form = "EPSG" THEN ImportFromEPSG(wkt.code)
    ELSE ImportFromWkt(wkt.text)

\* a slip: the zone counted from 0
_get_projected_srs_from_zero(center) ==
    Srs("utm", TruncDiv(center.lon + 1800, 60), center.lat > 0)

\* utm_zone = int(1 + (lon + 180.0) / 6.0), is_northern = int(lat > 0.0);
\* lon and lat in tenths of a degree: 1 + (lon + 180) / 6 = (60 + lon10 + 1800) / 60
_get_projected_srs(center) ==
    Srs("utm", TruncDiv(60 + center.lon + 1800, 60), center.lat > 0)

Reprojection(destination_srs, roi_srs) ==
    [raised |-> FALSE, source_srs |-> roi_srs, destination_srs |-> destination_srs]

\* no reprojection: the ValueError of _get_reprojection was raised instead
NoReprojection == [raised |-> TRUE, source_srs |-> NoSrs, destination_srs |-> NoSrs]

\* a slip: the roi taken as WGS84 when only the destination grid is given
_get_reprojection_roi_wgs84(center, roi_hint, destination_hint) ==
    LET roi_srs == _get_reference_system(roi_hint)
        destination_srs == _get_reference_system(destination_hint)
        wgs84_srs == _get_reference_system(Epsg(4326))
    IN IF roi_srs = NoSrs
       THEN IF destination_srs = NoSrs
            THEN Reprojection(_get_projected_srs(center), wgs84_srs)
            ELSE Reprojection(destination_srs, wgs84_srs)
       ELSE IF destination_srs = NoSrs
            THEN IF IsSame(roi_srs, wgs84_srs)
                 THEN Reprojection(_get_projected_srs(center), roi_srs)
                 ELSE NoReprojection
            ELSE Reprojection(destination_srs, roi_srs)

_get_reprojection(center, roi_hint, destination_hint) ==
    LET roi_srs == _get_reference_system(roi_hint)
        destination_srs == _get_reference_system(destination_hint)
        wgs84_srs == _get_reference_system(Epsg(4326))
    IN IF roi_srs = NoSrs
       THEN IF destination_srs = NoSrs
            THEN Reprojection(_get_projected_srs(center), wgs84_srs)
            ELSE Reprojection(destination_srs, destination_srs)
       ELSE IF destination_srs = NoSrs
            THEN IF IsSame(roi_srs, wgs84_srs)
                 THEN Reprojection(_get_projected_srs(center), roi_srs)
                 ELSE NoReprojection
            ELSE Reprojection(destination_srs, roi_srs)

(***************************************************************************)
(* The collaborators of a run, as far as the run observes them.            *)
(***************************************************************************)
\* is_valid(url, variable_name) of multiply_core, on the urls of the model
is_valid(url, variable_name) ==
    \/ url \in {"lai_a.tif", "lai_b.tif"} /\ variable_name = "lai"
    \/ url = "cab_a.tif" /\ variable_name = "cab"

FileRef(url, start_time) == [url |-> url, start_time |-> start_time]

\* get_valid_files(data_path, variable_names): the files of the data path
\* that are valid for one of the names, in the order of the listing
get_valid_files(files, names) ==
    SelectSeq(files, LAMBDA f : \E k \in 1 .. Len(names) : is_valid(f.url, names[k]))

\* the keys of the dict process_observations / process_variables returns:
\* the indicators the post processor was created for
process_keys(post_processor) == post_processor.indicator_names

(***************************************************************************)
(* Names of the output files.                                              *)
(***************************************************************************)
\* time.strftime('%Y%m%d'): the calendar day of a time
_format(time) == time \div SlotsPerDay

\* SINGLE_NAME_FORMAT.format(indicator, day), DOUBLE_NAME_FORMAT.format(indicator, day, day)
SINGLE_NAME_FORMAT(indicator, day) ==
    [format |-> "{}_{}.tif", indicator |-> indicator, first |-> day, second |-> -1]
DOUBLE_NAME_FORMAT(indicator, first, second) ==
    [format |-> "{}_{}_{}.tif", indicator |-> indicator, first |-> first, second |-> second]

eo_file_names(keys, start, end) ==
    [k \in 1 .. Len(keys) |-> DOUBLE_NAME_FORMAT(keys[k], _format(start), _format(end))]

var_file_names(keys, date) ==
    [k \in 1 .. Len(keys) |-> SINGLE_NAME_FORMAT(keys[k], _format(date))]

(***************************************************************************)
(* The EO data path.                                                       *)
(***************************************************************************)
\* observations.get_num_observations() < 2
not_enough_observations(dates) == Len(dates) < 2

\* a slip: the number of observations for the number of windows
eo_progress_of_observations(index, num_observations) == (index * 100) \div num_observations

\* int((i / (num_observations - 1)) * 100)
eo_progress(index, num_observations) == (index * 100) \div (num_observations - 1)

\* a slip: the window ends with the last observation
eo_window_to_last(dates, index) == <<dates[index + 1], dates[Len(dates)]>>

\* start = observations.dates[i], end = observations.dates[i + 1]
eo_window(dates, index) == <<dates[index + 1], dates[index + 2]>>

(***************************************************************************)
(* The variable path.                                                      *)
(***************************************************************************)
RECURSIVE _group_file_refs_by_date_from(_, _)
_group_file_refs_by_date_from(file_refs, groups) ==
    IF file_refs = <<>> THEN groups
    ELSE LET file_ref == Head(file_refs)
             known == {g \in 1 .. Len(groups) : groups[g].date = file_ref.start_time}
         IN _group_file_refs_by_date_from(Tail(file_refs),
                IF known = {}
                THEN Append(groups, [date |-> file_ref.start_time, refs |-> <<file_ref>>])
                ELSE LET g == CHOOSE g \in known : TRUE
                     IN [groups EXCEPT ![g].refs = Append(@, file_ref)])

_group_file_refs_by_date(file_refs) == _group_file_refs_by_date_from(file_refs, <<>>)

\* int((i / (len(file_ref_groups.keys()))) * 100)
var_progress(index, num_groups) == (index * 100) \div num_groups

\* a slip: the break left out, the last valid file wins
last_valid(refs, variable_name) ==
    LET valid == {k \in 1 .. Len(refs) : is_valid(refs[k].url, variable_name)}
    IN IF valid = {} THEN 0 ELSE CHOOSE k \in valid : \A k2 \in valid : k >= k2

\* for file_ref in file_refs_for_date: if is_valid(...): ...; break
first_valid(refs, variable_name) ==
    LET valid == {k \in 1 .. Len(refs) : is_valid(refs[k].url, variable_name)}
    IN IF valid = {} THEN 0 ELSE CHOOSE k \in valid : \A k2 \in valid : k <= k2

\* data_files: for each variable name, in order, the url of the first valid
\* file of the group; no entry for a variable without a valid file
RECURSIVE data_files_from(_, _, _)
data_files_from(refs, names, acc) ==
    IF names = <<>> THEN acc
    ELSE LET k == first_valid(refs, Head(names))
         IN data_files_from(refs, Tail(names),
                IF k = 0 THEN acc
                ELSE Append(acc, [variable |-> Head(names), url |-> refs[k].url]))

data_files_of(refs, names) == data_files_from(refs, names, <<>>)

(***************************************************************************)
(* The writer.                                                             *)
(***************************************************************************)
\* a slip: the format not looked at
_write_any_format(file_names, format) == file_names

\* _write: what GeoTiffWriter is given to write
_write(file_names, format) == IF format = GeoTiff THEN file_names ELSE <<>>

(***************************************************************************)
(* The log of what a run did.                                              *)
(***************************************************************************)
Event(kind, proc, index) ==
    [kind |-> kind, proc |-> proc, index |-> index, value |-> 0, window |-> <<>>,
     data_files |-> <<>>, keys |-> <<>>, file_names |-> <<>>]

(***************************************************************************)
(* Values of the variables a specification does not use.                   *)
(***************************************************************************)
NoCenter == [lon |-> 0, lat |-> 0]
NoData == [n \in {} |-> <<>>]

IdleInputs ==
    /\ name = None /\ indicator_names = <<>> /\ variable_names = NoList
    /\ roi_grid = NoGrid /\ destination_grid = NoGrid /\ output_format = GeoTiff
    /\ roi_center = NoCenter /\ eo_data = NoData /\ var_files = <<>>

IdleLocals ==
    /\ post_processors = <<>> /\ p = 0 /\ i = 0 /\ reprojection = NoReprojection
    /\ file_ref_groups = <<>> /\ indicator_dict = <<>>

IdleLog == events = <<>> /\ written = <<>> /\ error = "none"

(***************************************************************************)
(* SpecRegistry: creators are registered one by one, then                  *)
(* get_post_processors is called with a list of requested names.           *)
(***************************************************************************)
CreatorNames == {"BurnedSeverity", "SoilMoisture"}
TypeOf(n) == IF n = "BurnedSeverity" THEN EO_DATA_POST_PROCESSOR
             ELSE VARIABLE_POST_PROCESSOR

Creator(n, indicators) == [name |-> n, type |-> TypeOf(n), indicators |-> indicators]

AnyCreators ==
    {Creator(n, ind) : n \in CreatorNames, ind \in SeqsOf(IndicatorNames, 0, MaxDeclared)}

InitRegistry ==
    /\ registry = <<>> /\ call = "none" /\ pc = "start"
    /\ IdleInputs /\ IdleLocals /\ IdleLog

AddPostProcessorCreator ==
    /\ pc = "start" /\ Len(registry) < MaxCreators
    /\ \E creator \in AnyCreators :
          registry' = add_post_processor_creator(registry, creator)
    /\ UNCHANGED <<call, inputs, pc, locals, events, written, error>>

GetPostProcessors ==
    /\ pc = "start"
    /\ \E requested \in SeqsOf(IndicatorNames, 0, MaxRequested) :
          /\ indicator_names' = requested
          /\ post_processors' = get_post_processors(registry, requested)
    /\ call' = "get_post_processors" /\ pc' = "done"
    /\ UNCHANGED <<registry, name, variable_names, roi_grid, destination_grid,
                   output_format, roi_center, eo_data, var_files, p, i, reprojection,
                   file_ref_groups, indicator_dict, events, written, error>>

NextRegistry == AddPostProcessorCreator \/ GetPostProcessors

SpecRegistry == InitRegistry /\ [][NextRegistry]_vars

(***************************************************************************)
(* SpecReprojection: _get_reprojection on every combination of hints.      *)
(***************************************************************************)
RoiGridChoices ==
    {NoGrid, Epsg(4326), Wkt("GEOGCS[WGS 84]"), Epsg(3857), Epsg(32632), Wkt("PROJCS[WGS 84 / UTM zone 32N]")}
DestinationGridChoices ==
    {NoGrid, Epsg(4326), Epsg(32632), Epsg(32733), Wkt("PROJCS[WGS 84 / UTM zone 32N]")}
Longitudes == {-1800, -1230, -61, -1, 0, 59, 60, 90, 1799}
Latitudes == {-450, -1, 0, 1, 450}

InitReprojection ==
    /\ registry = <<>> /\ call = "none" /\ pc = "start"
    /\ name = None /\ indicator_names = <<>> /\ variable_names = NoList
    /\ roi_grid \in RoiGridChoices
    /\ destination_grid \in DestinationGridChoices
    /\ output_format = GeoTiff
    /\ roi_center \in [lon : Longitudes, lat : Latitudes]
    /\ eo_data = NoData /\ var_files = <<>>
    /\ IdleLocals /\ IdleLog

GetReprojection ==
    /\ pc = "start"
    /\ LET r == _get_reprojection(roi_center, roi_grid, destination_grid)
       IN IF r.raised
          THEN /\ error' = "ValueError: Cannot derive destination grid"
               /\ pc' = "error"
               /\ UNCHANGED reprojection
          ELSE /\ reprojection' = r
               /\ pc' = "done"
               /\ UNCHANGED error
    /\ call' = "_get_reprojection"
    /\ UNCHANGED <<registry, inputs, post_processors, p, i, file_ref_groups,
                   indicator_dict, events, written>>

NextReprojection == GetReprojection

SpecReprojection == InitReprojection /\ [][NextReprojection]_vars

(***************************************************************************)
(* Spec: a run.  The registry was filled when the module was imported; the *)
(* arguments and the content of the data path are the run's inputs.  The   *)
(* caller calls run_post_processing or run_post_processor.                 *)
(***************************************************************************)
BurnedSeverity == Creator("BurnedSeverity", <<"NBR">>)
Greenness == [name |-> "Greenness", type |-> EO_DATA_POST_PROCESSOR,
              indicators |-> <<"NBR", "SMA">>]
SoilMoisture == Creator("SoilMoisture", <<"SMA">>)
RunCreators == {BurnedSeverity, Greenness, SoilMoisture}
EONames == {"BurnedSeverity", "Greenness"}

\* strictly increasing sequences of times: the dates of the observations
DateSeqs ==
    {d \in SeqsOf(Times, 0, MaxDates) : \A k \in 1 .. Len(d) - 1 : d[k] < d[k + 1]}

FileRefs == {FileRef(u, t) : u \in {"lai_a.tif", "lai_b.tif", "cab_a.tif"}, t \in StartTimes}

DefaultCenter == [lon |-> 90, lat |-> 450]
FewFiles == <<FileRef("lai_a.tif", 0), FileRef("cab_a.tif", 0), FileRef("lai_b.tif", 1)>>

\* every configuration, over a data path with little in it
InitConfigurations ==
    /\ registry \in SeqsOf(RunCreators, 0, MaxRunCreators)
    /\ name \in {"BurnedSeverity", "SoilMoisture", "Unknown"}
    /\ indicator_names \in {<<"NBR">>, <<"SMA", "NBR">>}
    /\ variable_names \in {NoList, SomeList(<<"lai", "cab">>)}
    /\ \E grids \in {<<NoGrid, NoGrid>>, <<Epsg(4326), NoGrid>>, <<Epsg(3857), NoGrid>>,
                      <<Epsg(3857), Epsg(32632)>>} :
          roi_grid = grids[1] /\ destination_grid = grids[2]
    /\ output_format \in {GeoTiff, "NetCDF"}
    /\ eo_data \in [EONames -> {<<0>>, <<0, 2>>}]
    /\ var_files = FewFiles

\* every series of observations, under one configuration
InitObservations ==
    /\ registry = <<BurnedSeverity, SoilMoisture>>
    /\ name = "BurnedSeverity"
    /\ indicator_names = <<"SMA", "NBR">>
    /\ variable_names = SomeList(<<"lai", "cab">>)
    /\ roi_grid = Epsg(4326) /\ destination_grid = NoGrid
    /\ output_format = GeoTiff
    /\ eo_data \in [EONames -> DateSeqs]
    /\ var_files = FewFiles

\* every content of the data path, under one configuration
InitFiles ==
    /\ registry = <<SoilMoisture, BurnedSeverity>>
    /\ name = "SoilMoisture"
    /\ indicator_names = <<"SMA", "NBR">>
    /\ variable_names \in {SomeList(<<"lai", "cab">>), SomeList(<<"cab">>)}
    /\ roi_grid = Epsg(4326) /\ destination_grid = NoGrid
    /\ output_format = GeoTiff
    /\ eo_data = [n \in EONames |-> <<0, 2>>]
    /\ var_files \in SeqsOf(FileRefs, 0, MaxFiles)

Init ==
    /\ call = "none" /\ pc = "start"
    /\ roi_center = DefaultCenter
    /\ InitConfigurations \/ InitObservations \/ InitFiles
    /\ IdleLocals /\ IdleLog

ThisPostProcessor == post_processors[p]

Raise(exception) == error' = exception /\ pc' = "error"

\* run_post_processing, lines 172-173
RunPostProcessing ==
    /\ pc = "start"
    /\ call' = "run_post_processing"
    /\ post_processors' = get_post_processors(registry, indicator_names)
    /\ p' = 1 /\ pc' = "for post_processor"
    /\ UNCHANGED <<registry, inputs, i, reprojection, file_ref_groups, indicator_dict,
                   events, written, error>>

\* run_post_processor, line 182
RunPostProcessor ==
    /\ pc = "start"
    /\ call' = "run_post_processor"
    /\ LET post_processor == get_post_processor(registry, name, indicator_names)
       IN IF post_processor = NoPostProcessor
          THEN /\ Raise("ValueError: No post processor with name found")
               /\ UNCHANGED <<post_processors, p>>
          ELSE /\ post_processors' = <<post_processor>>
               /\ p' = 1 /\ pc' = "for post_processor"
               /\ UNCHANGED error
    /\ UNCHANGED <<registry, inputs, i, reprojection, file_ref_groups, indicator_dict,
                   events, written>>

\* the end of the loop of run_post_processing / the return of run_post_processor
Return ==
    /\ pc = "for post_processor" /\ p > Len(post_processors)
    /\ pc' = "done"
    /\ UNCHANGED <<registry, call, inputs, locals, events, written, error>>

\* run_actual_post_processor, lines 191-198
RunActualPostProcessor ==
    /\ pc = "for post_processor" /\ p <= Len(post_processors)
    /\ events' = Append(events, Event("run", p, 0))
    /\ IF ThisPostProcessor.type = EO_DATA_POST_PROCESSOR
       THEN pc' = "_run_eo_data_post_processor" /\ UNCHANGED error
       ELSE IF variable_names.none
            THEN Raise("ValueError: No list with variable names be provided")
            ELSE pc' = "_run_variable_post_processor" /\ UNCHANGED error
    /\ UNCHANGED <<registry, call, inputs, locals, written>>

\* a slip: too few observations taken for an error
skip_post_processor_raises(proc) ==
    [pc |-> "error", p |-> proc, error |-> "ValueError: Not enough observations found"]

\* the return of line 212 and the next round of the loop of line 173
skip_post_processor(proc) ==
    [pc |-> "for post_processor", p |-> proc + 1, error |-> "none"]

\* _run_eo_data_post_processor, lines 204-212
EoSetup ==
    /\ pc = "_run_eo_data_post_processor"
    /\ LET r == _get_reprojection(roi_center, roi_grid, destination_grid)
           dates == eo_data[ThisPostProcessor.name]
       IN IF r.raised
          THEN /\ Raise("ValueError: Cannot derive destination grid")
               /\ UNCHANGED <<reprojection, p, i, events>>
          ELSE /\ reprojection' = r
               /\ IF not_enough_observations(dates)
                  THEN /\ events' = Append(events, Event("not enough observations", p, 0))
                       /\ pc' = skip_post_processor(p).pc
                       /\ p' = skip_post_processor(p).p
                       /\ error' = skip_post_processor(p).error
                       /\ UNCHANGED i
                  ELSE /\ i' = 0 /\ pc' = "eo progress"
                       /\ UNCHANGED <<p, events, error>>
    /\ UNCHANGED <<registry, call, inputs, post_processors, file_ref_groups,
                   indicator_dict, written>>

\* line 214
EoProgress ==
    /\ pc = "eo progress"
    /\ events' = Append(events,
          [Event("progress", p, i) EXCEPT
              !.value = eo_progress(i, Len(eo_data[ThisPostProcessor.name]))])
    /\ pc' = "process_observations"
    /\ UNCHANGED <<registry, call, inputs, locals, written, error>>

\* lines 215-218
EoProcess ==
    /\ pc = "process_observations"
    /\ events' = Append(events,
          [Event("process", p, i) EXCEPT
              !.window = eo_window(eo_data[ThisPostProcessor.name], i),
              !.keys = process_keys(ThisPostProcessor)])
    /\ indicator_dict' = process_keys(ThisPostProcessor)
    /\ pc' = "eo write"
    /\ UNCHANGED <<registry, call, inputs, post_processors, p, i, reprojection,
                   file_ref_groups, written, error>>

\* lines 219-225 and _write; then the next round of the loop of line 213
EoWrite ==
    /\ pc = "eo write"
    /\ LET dates == eo_data[ThisPostProcessor.name]
           window == eo_window(dates, i)
           file_names == eo_file_names(indicator_dict, window[1], window[2])
           r == _get_reprojection(roi_center, roi_grid, destination_grid)
       IN IF r.raised
          THEN /\ Raise("ValueError: Cannot derive destination grid")
               /\ UNCHANGED <<p, i, events, written>>
          ELSE /\ events' = Append(events,
                     [Event("write", p, i) EXCEPT !.file_names = file_names])
               /\ written' = written \o _write(file_names, output_format)
               /\ IF i + 1 < Len(dates) - 1
                  THEN i' = i + 1 /\ pc' = "eo progress" /\ UNCHANGED p
                  ELSE p' = p + 1 /\ pc' = "for post_processor" /\ UNCHANGED i
               /\ UNCHANGED error
    /\ UNCHANGED <<registry, call, inputs, post_processors, reprojection,
                   file_ref_groups, indicator_dict>>

\* _run_variable_post_processor, lines 241-243
VarSetup ==
    /\ pc = "_run_variable_post_processor"
    /\ LET file_refs == get_valid_files(var_files, variable_names.list)
           groups == _group_file_refs_by_date(file_refs)
           r == _get_reprojection(roi_center, roi_grid, destination_grid)
       IN IF r.raised
          THEN /\ Raise("ValueError: Cannot derive destination grid")
               /\ UNCHANGED <<reprojection, file_ref_groups, p, i>>
          ELSE /\ reprojection' = r
               /\ file_ref_groups' = groups
               /\ IF groups = <<>>
                  THEN p' = p + 1 /\ pc' = "for post_processor" /\ UNCHANGED i
                  ELSE i' = 0 /\ pc' = "var progress" /\ UNCHANGED p
               /\ UNCHANGED error
    /\ UNCHANGED <<registry, call, inputs, post_processors, indicator_dict,
                   events, written>>

\* line 245
VarProgress ==
    /\ pc = "var progress"
    /\ events' = Append(events,
          [Event("progress", p, i) EXCEPT !.value = var_progress(i, Len(file_ref_groups))])
    /\ pc' = "process_variables"
    /\ UNCHANGED <<registry, call, inputs, locals, written, error>>

\* lines 246-258
VarProcess ==
    /\ pc = "process_variables"
    /\ LET group == file_ref_groups[i + 1]
       IN events' = Append(events,
             [Event("process", p, i) EXCEPT
                 !.window = <<group.date>>,
                 !.data_files = data_files_of(group.refs, variable_names.list),
                 !.keys = process_keys(ThisPostProcessor)])
    /\ indicator_dict' = process_keys(ThisPostProcessor)
    /\ pc' = "var write"
    /\ UNCHANGED <<registry, call, inputs, post_processors, p, i, reprojection,
                   file_ref_groups, written, error>>

\* lines 259-264 and _write; then the next round of the loop of line 244
VarWrite ==
    /\ pc = "var write"
    /\ LET file_names == var_file_names(indicator_dict, file_ref_groups[i + 1].date)
           r == _get_reprojection(roi_center, roi_grid, destination_grid)
       IN IF r.raised
          THEN /\ Raise("ValueError: Cannot derive destination grid")
               /\ UNCHANGED <<p, i, events, written>>
          ELSE /\ events' = Append(events,
                     [Event("write", p, i) EXCEPT !.file_names = file_names])
               /\ written' = written \o _write(file_names, output_format)
               /\ IF i + 1 < Len(file_ref_groups)
                  THEN i' = i + 1 /\ pc' = "var progress" /\ UNCHANGED p
                  ELSE p' = p + 1 /\ pc' = "for post_processor" /\ UNCHANGED i
               /\ UNCHANGED error
    /\ UNCHANGED <<registry, call, inputs, post_processors, reprojection,
                   file_ref_groups, indicator_dict>>

Next ==
    \/ RunPostProcessing \/ RunPostProcessor \/ Return \/ RunActualPostProcessor
    \/ EoSetup \/ EoProgress \/ EoProcess \/ EoWrite
    \/ VarSetup \/ VarProgress \/ VarProcess \/ VarWrite

Spec == Init /\ [][Next]_vars

(***************************************************************************)
(* Properties of the registry (SpecRegistry).                              *)
(***************************************************************************)
DeclaredRequested(k) == Range(registry[k].indicators) \cap Range(indicator_names)

\* C1: get_post_processors creates a post processor for a creator if and
\* only if one of the creator's declared indicator names is requested, with
\* exactly the declared names that are requested, in registration order.
C1_ResolveByIndicators ==
    call = "get_post_processors" =>
        /\ {post_processors[j].creator : j \in 1 .. Len(post_processors)}
              = {k \in 1 .. Len(registry) : DeclaredRequested(k) # {}}
        /\ \A j1, j2 \in 1 .. Len(post_processors) :
              j1 < j2 => post_processors[j1].creator < post_processors[j2].creator
        /\ \A j \in 1 .. Len(post_processors) :
              /\ Range(post_processors[j].indicator_names)
                    = DeclaredRequested(post_processors[j].creator)
              /\ post_processors[j].name = registry[post_processors[j].creator].name

\* a creator left out, and one created with a part of what it declares
C1_Witness ==
    /\ call = "get_post_processors"
    /\ Len(registry) = 2 /\ Len(post_processors) = 1
    /\ post_processors[1].creator = 2
    /\ registry[1].indicators # <<>>
    /\ Len(post_processors[1].indicator_names) < Len(registry[2].indicators)

(***************************************************************************)
(* Properties of the reprojection (SpecReprojection).                      *)
(***************************************************************************)
Wgs84Hints == {Epsg(4326), Wkt("GEOGCS[WGS 84]")}
UtmOfCentroid == _get_projected_srs(roi_center)

UtmDerived ==
    /\ call = "_get_reprojection" /\ pc = "done"
    /\ destination_grid = NoGrid

\* C3 as stated: zone 31 at longitude 9.0, zone 2 at longitude -123.0, and
\* the northern flag exactly when the latitude is greater than 0.
C3_ZonesAsStated ==
    UtmDerived =>
        /\ roi_center.lon = 90 => reprojection.destination_srs.zone = 31
        /\ roi_center.lon = -1230 => reprojection.destination_srs.zone = 2
        /\ reprojection.destination_srs.north <=> roi_center.lat > 0

\* C3 as amended: the UTM zone derived from the centroid is 32 at longitude
\* 9.0 and 10 at longitude -123.0 (int(1 + (lon + 180) / 6)), and the
\* northern flag is true exactly when the latitude is greater than 0.
C3_Zones ==
    UtmDerived =>
        /\ reprojection.destination_srs.proj = "utm"
        /\ roi_center.lon = 90 => reprojection.destination_srs.zone = 32
        /\ roi_center.lon = -1230 => reprojection.destination_srs.zone = 10
        /\ reprojection.destination_srs.north <=> roi_center.lat > 0

C3_Witness ==
    /\ UtmDerived /\ roi_grid = NoGrid
    /\ roi_center.lon = -1230 /\ roi_center.lat = 450
    /\ reprojection.destination_srs = Srs("utm", 10, TRUE)

(***************************************************************************)
(* Properties of a run (Spec).                                             *)
(***************************************************************************)
Procs == 1 .. Len(post_processors)
IsEO(q) == post_processors[q].type = EO_DATA_POST_PROCESSOR
IsVar(q) == post_processors[q].type = VARIABLE_POST_PROCESSOR
Dates(q) == eo_data[post_processors[q].name]
Running == call \in {"run_post_processing", "run_post_processor"}

\* the events of post processor q of the given kinds, in order
EventsOf(q, kinds) == SelectSeq(events, LAMBDA e : e.proc = q /\ e.kind \in kinds)
Happened(q, kind) == \E k \in 1 .. Len(events) : events[k].proc = q /\ events[k].kind = kind

\* the run has left post processor q behind without an exception
Finished(q) == p > q

\* the date groups the discovered files of the run make
Discovered == get_valid_files(var_files, variable_names.list)
VarSetupDone ==
    /\ Running /\ p \in Procs /\ IsVar(p)
    /\ pc \in {"var progress", "process_variables", "var write"}

\* the number of windows / date groups post processor q has to process
Rounds(q) ==
    IF IsEO(q) THEN (IF Len(Dates(q)) < 2 THEN 0 ELSE Len(Dates(q)) - 1)
    ELSE Len(_group_file_refs_by_date(Discovered))

RECURSIVE AllFileNames(_)
AllFileNames(evs) ==
    IF evs = <<>> THEN <<>>
    ELSE (IF Head(evs).kind = "write" THEN Head(evs).file_names ELSE <<>>)
         \o AllFileNames(Tail(evs))

\* C4: an EO data post processor that finds fewer than two observations is
\* never invoked, nothing is written for it, no error is raised, and the
\* post processor after it is run.
C4_SkipRule ==
    Running =>
        \A q \in Procs :
            /\ (IsEO(q) /\ Len(Dates(q)) < 2) =>
                  ~Happened(q, "process") /\ ~Happened(q, "write")
            /\ Happened(q, "not enough observations") =>
                  /\ IsEO(q) /\ Len(Dates(q)) < 2
                  /\ Finished(q)
                  /\ \A k \in 1 .. Len(events) :
                        (events[k].proc = q /\ events[k].kind = "not enough observations") =>
                            IF k = Len(events)
                            THEN error = "none" /\ pc \in {"for post_processor", "done"}
                            ELSE events[k + 1].kind = "run" /\ events[k + 1].proc = q + 1
                  /\ q < Len(post_processors) =>
                        \/ pc = "for post_processor" /\ p = q + 1 /\ error = "none"
                        \/ Happened(q + 1, "run")

\* the first post processor was skipped and the second one processed a window
C4_Witness ==
    /\ Running /\ Len(post_processors) = 2
    /\ Happened(1, "not enough observations")
    /\ Happened(2, "process") /\ Happened(2, "write")
    /\ pc = "done"

\* C5: at the moment a resolution error is raised no post processor has been
\* invoked and no output file has been written in the run.
C5_RaisedImmediately ==
    error # "none" =>
        /\ \A k \in 1 .. Len(events) : events[k].kind \notin {"process", "write"}
        /\ written = <<>>

\* C6: with an output format other than 'GeoTiff' no file is written, the
\* format raises no error, every window / date group of every post processor
\* is still processed, and the run ends normally with no file written.
C6_UnsupportedFormat ==
    (Running /\ output_format # GeoTiff) =>
        /\ written = <<>>
        /\ error \in {"none", "ValueError: No post processor with name found",
                      "ValueError: No list with variable names be provided",
                      "ValueError: Cannot derive destination grid"}
        /\ pc = "error" <=> error # "none"
        /\ \A q \in Procs :
              /\ Len(EventsOf(q, {"write"})) <= Rounds(q)
              /\ \A k \in 1 .. Len(EventsOf(q, {"process", "write"})) :
                    LET e == EventsOf(q, {"process", "write"})[k]
                    IN /\ e.index = (k - 1) \div 2
                       /\ e.kind = IF k % 2 = 1 THEN "process" ELSE "write"
              /\ Finished(q) => Len(EventsOf(q, {"write"})) = Rounds(q)
        /\ pc = "done" => \A q \in Procs : Finished(q)

\* a run of two post processors that ended normally, with results of every
\* one of them handed to the writer
C6_Witness ==
    /\ Running /\ output_format = "NetCDF" /\ pc = "done"
    /\ Len(post_processors) = 2
    /\ \A q \in Procs : /\ Rounds(q) > 0
                        /\ \E k \in 1 .. Len(events) :
                              /\ events[k].proc = q /\ events[k].kind = "write"
                              /\ events[k].file_names # <<>>
    /\ written = <<>>

\* C7: an EO data post processor with n >= 2 observation dates is invoked
\* n-1 times, invocation i on the window from d_i to d_i+1 in increasing
\* order of i, and the results of window i are written, one file per
\* indicator returned, named with d_i and d_i+1, before window i+1 is processed.
C7_Windows ==
    Running =>
        /\ \A q \in Procs :
              (IsEO(q) /\ Len(Dates(q)) >= 2) =>
                  LET log == EventsOf(q, {"process", "write"})
                  IN /\ Len(log) <= 2 * (Len(Dates(q)) - 1)
                     /\ Finished(q) => Len(log) = 2 * (Len(Dates(q)) - 1)
                     /\ \A k \in 1 .. Len(log) :
                           LET w == (k - 1) \div 2
                           IN /\ log[k].index = w
                              /\ log[k].kind = IF k % 2 = 1 THEN "process" ELSE "write"
                              /\ log[k].kind = "process" =>
                                    log[k].window = <<Dates(q)[w + 1], Dates(q)[w + 2]>>
                              /\ log[k].kind = "write" =>
                                    /\ Len(log[k].file_names) = Len(log[k - 1].keys)
                                    /\ \A j \in 1 .. Len(log[k - 1].keys) :
                                          log[k].file_names[j] =
                                             DOUBLE_NAME_FORMAT(log[k - 1].keys[j],
                                                _format(Dates(q)[w + 1]),
                                                _format(Dates(q)[w + 2]))
        /\ output_format = GeoTiff => written = AllFileNames(events)

\* three observations, two windows processed and written
C7_Witness ==
    /\ Running /\ output_format = GeoTiff
    /\ \E q \in Procs :
          /\ IsEO(q) /\ Len(Dates(q)) = 3 /\ Finished(q)
          /\ Len(EventsOf(q, {"process"})) = 2
          /\ post_processors[q].indicator_names # <<>>
    /\ Len(written) >= 2

\* the first position of a file with that start time among the discovered files
FirstWith(date) ==
    CHOOSE k \in 1 .. Len(Discovered) :
        /\ Discovered[k].start_time = date
        /\ \A k2 \in 1 .. (k - 1) : Discovered[k2].start_time # date

\* C8: the discovered files are partitioned into groups by their literal
\* start_time, groups and files in discovery order; for every group and every
\* requested variable the file handed to the post processor is the first file
\* of the group for which is_valid holds, a variable without a valid file is
\* absent, and process_variables is invoked once per group.
C8_GroupsAndFirstMatch ==
    VarSetupDone =>
        /\ \A g \in 1 .. Len(file_ref_groups) :
              /\ file_ref_groups[g].refs # <<>>
              /\ file_ref_groups[g].refs =
                    SelectSeq(Discovered, LAMBDA f : f.start_time = file_ref_groups[g].date)
        /\ \A g1, g2 \in 1 .. Len(file_ref_groups) :
              g1 < g2 => /\ file_ref_groups[g1].date # file_ref_groups[g2].date
                         /\ FirstWith(file_ref_groups[g1].date)
                               < FirstWith(file_ref_groups[g2].date)
        /\ \A k \in 1 .. Len(Discovered) :
              \E g \in 1 .. Len(file_ref_groups) :
                  file_ref_groups[g].date = Discovered[k].start_time
        /\ LET log == EventsOf(p, {"process"})
           IN /\ Len(log) <= Len(file_ref_groups)
              /\ pc = "var write" => Len(log) = i + 1
              /\ \A n \in 1 .. Len(log) :
                    LET refs == file_ref_groups[n].refs
                        given == log[n].data_files
                    IN /\ log[n].index = n - 1
                       /\ log[n].window = <<file_ref_groups[n].date>>
                       /\ \A v \in Range(variable_names.list) :
                             LET valid == {k \in 1 .. Len(refs) : is_valid(refs[k].url, v)}
                                 entries == {j \in 1 .. Len(given) : given[j].variable = v}
                             IN IF valid = {}
                                THEN entries = {}
                                ELSE /\ Cardinality(entries) = 1
                                     /\ \E k \in valid :
                                           /\ \A k2 \in valid : k <= k2
                                           /\ \A j \in entries : given[j].url = refs[k].url
                       /\ \A j \in 1 .. Len(given) :
                             given[j].variable \in Range(variable_names.list)

\* a group with two valid files of one variable and none of the other: the
\* first is handed over, the later one is not, the other variable is absent
C8_Witness ==
    /\ VarSetupDone /\ pc = "var write"
    /\ variable_names.list = <<"lai", "cab">>
    /\ Len(file_ref_groups) = 2
    /\ file_ref_groups[i + 1].refs = <<FileRef("lai_b.tif", 1), FileRef("lai_a.tif", 1)>>
    /\ events[Len(events)].kind = "process"
    /\ events[Len(events)].data_files = <<[variable |-> "lai", url |-> "lai_b.tif"]>>

ProgressExpected(q, index) ==
    IF IsEO(q) THEN (index * 100) \div (Len(Dates(q)) - 1)
    ELSE (index * 100) \div Len(_group_file_refs_by_date(Discovered))

\* what C9 says of the value, the number and the order of the emissions
ProgressValues(q) ==
    LET emitted == EventsOf(q, {"progress"})
    IN /\ Len(emitted) <= Rounds(q)
       /\ Finished(q) => Len(emitted) = Rounds(q)
       /\ \A n \in 1 .. Len(emitted) :
             /\ emitted[n].index = n - 1
             /\ emitted[n].value = ProgressExpected(q, n - 1)
       /\ \A n1, n2 \in 1 .. Len(emitted) :
             n1 < n2 => emitted[n1].value <= emitted[n2].value

C10_NoNameWrittenTwice ==
    \A k1, k2 \in 1 .. Len(written) : k1 # k2 => written[k1] # written[k2]

=============================================================================
